---- MODULE Spec2Model ----
(***************************************************************************)
(* Session orchestration core of the Gemini 2 Live API demo client:        *)
(* GeminiAgent (src/js/main/agent.js), the screen capturer                 *)
(* (src/js/settings/settings-template.js) and the UI glue that drives      *)
(* them (src/unnamed/part_000, src/js/script.js).                          *)
(*                                                                         *)
(* Execution is one JavaScript event loop.  One action of this module is   *)
(* one macrotask: a call made by the page, a timer tick, a socket or       *)
(* device event, together with every promise continuation it resumes.     *)
(* An `await` on a device, a socket or the audio context splits a method   *)
(* in two actions; an `await` on an already settled promise does not.      *)
(*                                                                         *)
(* The collaborators whose files are not part of the sources (the          *)
(* websocket client, the audio streamer and recorder, the camera           *)
(* capturer, the transcriber, the tool manager) are modelled from their    *)
(* interface as the specification describes it.                            *)
(***************************************************************************)
EXTENDS Naturals, Sequences, FiniteSets

\* ------------------------------------------------------------------ bounds
MaxClients == 2     \* connect() calls in one run (each constructs a client)
MaxOut == 2         \* outbound intents accepted by one client
MaxQueue == 2       \* chunks scheduled on the sink at one time
MaxTimers == 2      \* live capture timers of one kind
MaxPending == 2     \* disconnect() calls suspended at the same time
MaxToolCalls == 1   \* tool calls the remote side makes in one run
MaxBatch == 2       \* function calls in one toolCall envelope
MaxContexts == 2    \* AudioContexts open at one time
MaxStarts == 2      \* starts of one capture path suspended at the same time
MaxRecordings == 2  \* microphone captures running at one time
MaxTime == 4        \* the output device clock runs from 0 to MaxTime
MaxDuration == 2    \* an audio chunk lasts 1..MaxDuration clock units
MaxListeners == 2   \* 'visibilitychange' listeners installed on the document

NULL == 0
ClientIds == 1..MaxClients
ToolIds == 1..MaxToolCalls
CallIds == 1..MaxBatch

VARIABLES
    agent,      \* the GeminiAgent object: its fields
    clients,    \* the GeminiWebsocketClient objects constructed so far
    streamer,   \* the AudioStreamer the agent references
    sink,       \* its output timeline: device clock and scheduled entries
    camera,     \* the CameraManager
    screen,     \* the ScreenManager
    timers,     \* live setInterval timers, by kind
    media,      \* the page's audio devices: AudioContexts created and not
                \* closed, microphone captures started and not stopped
    pend,       \* calls suspended at an await
    tools,      \* the tool manager's invocations and their responses, by call id
    cfg,        \* constructor options (transcription)
    built,      \* the constructor call: its options and how it ended
    ret,        \* what the call that ran in the last step returned
    emitted,    \* events the agent emitted in the last step
    page,       \* the toggle flags of the page's click handlers
    released    \* what the last step stopped, closed or reset, in that order

vars == <<agent, clients, streamer, sink, camera, screen, timers, media, pend, tools,
          cfg, built, ret, emitted, page, released>>

\* The heap as one value, so that a method is a function from heap to heap.
World == [a |-> agent, cl |-> clients, st |-> streamer, sk |-> sink, cam |-> camera,
          scr |-> screen, tm |-> timers, md |-> media, pd |-> pend,
          tl |-> tools, pg |-> page, em |-> <<>>, rl |-> <<>>]

\* A method runs on an agent whose constructor returned.
Commit(w) ==
    \E v \in {w} :
        /\ built.out = "ok"
        /\ built' = built
        /\ agent' = v.a
        /\ clients' = v.cl
        /\ streamer' = v.st
        /\ sink' = v.sk
        /\ camera' = v.cam
        /\ screen' = v.scr
        /\ timers' = v.tm
        /\ media' = v.md
        /\ pend' = v.pd
        /\ tools' = v.tl
        /\ emitted' = v.em
        /\ page' = v.pg
        /\ released' = v.rl
        /\ cfg' = cfg

\* op: the method or event of the last step; step: "call" (the method was
\* invoked), "resume" (it went on after an await) or "event"; res: "ok" (it
\* returned), "error" (it threw or rejected), "pending" (it is suspended at an
\* await), "none" (an event).
Ret(op, step, res) == [op |-> op, step |-> step, res |-> res]
Event(op) == Ret(op, "event", "none")

\* --------------------------------------------------------- the agent object
\* constructor: every field the constructor sets, and the fields the class
\* first assigns elsewhere (visualizer, the transcribers and their timers),
\* which read as undefined until then.
NewAgent ==
    [initialized |-> FALSE, connected |-> FALSE,
     audioContext |-> "null", audioRecorder |-> "null", audioStreamer |-> FALSE,
     visualizer |-> FALSE,
     modelTranscriber |-> "null", userTranscriber |-> "null",
     modelsKeepAliveInterval |-> FALSE, userKeepAliveInterval |-> FALSE,
     cameraInterval |-> FALSE, screenInterval |-> FALSE,
     client |-> NULL]

Configs == {"none", "model", "both"}

\* The constructor's options that it dereferences: url, config, config.tools
\* and toolManager, each given or not.
Options == [url : BOOLEAN, config : BOOLEAN, tools : BOOLEAN, toolManager : BOOLEAN]

GivenOptions == [url |-> TRUE, config |-> TRUE, tools |-> TRUE, toolManager |-> TRUE]

\* no constructor call yet
NotConstructed == [out |-> "none"]

\* a constructor that looks at url and config after it made the capturers
ConstructorChecksLast(o) ==
    [opts |-> o,
     out |-> IF o.url /\ o.config /\ o.tools /\ o.toolManager THEN "ok" ELSE "error",
     cameraManager |-> TRUE, screenManager |-> TRUE]

\* constructor(o): the two checks come first; the capturers are made next;
\* toolManager.getToolDeclarations() and config.tools are dereferenced last
Constructor(o) ==
    IF ~o.url \/ ~o.config
    THEN [opts |-> o, out |-> "error", cameraManager |-> FALSE, screenManager |-> FALSE]
    ELSE IF ~o.toolManager \/ ~o.tools
    THEN [opts |-> o, out |-> "error", cameraManager |-> TRUE, screenManager |-> TRUE]
    ELSE [opts |-> o, out |-> "ok", cameraManager |-> TRUE, screenManager |-> TRUE]

\* ------------------------------------------------- the websocket client
\* An envelope: its variant, the tool call it answers (0: none), and n, the
\* place of the intent among those this client accepted (0: the setup).
Msg(t, id) == [t |-> t, id |-> id, n |-> 0]

\* st: the session state.  handlers: how many times the agent installed its
\* listeners on this client.  outq: intents queued until the setup is
\* acknowledged.  wire: the envelopes sent, in order.  accepted: the intents
\* requested and not refused, in request order.  flushed: how many intents the
\* acknowledgement flushed from outq.
NoClient == [st |-> "None", handlers |-> 0, outq |-> <<>>, wire |-> <<>>,
             accepted |-> <<>>, flushed |-> 0]

\* new GeminiWebsocketClient(name, url, config)
NewClient == [NoClient EXCEPT !.st = "Connecting"]

\* the transport opened: the setup envelope goes out first
ClientOnOpen(k) == [k EXCEPT !.st = "AwaitingSetupAck", !.wire = <<Msg("setup", 0)>>]

\* setupComplete received: the queued intents are flushed in FIFO order
ClientOnSetupComplete(k) ==
    [k EXCEPT !.st = "Active", !.wire = @ \o k.outq, !.outq = <<>>,
              !.flushed = Len(k.outq)]

ClientCanSend(k) == k.st \in {"AwaitingSetupAck", "Active"}

\* sendText / sendAudio / sendImage / sendToolResponse
Stamp(k, m) == [m EXCEPT !.n = Len(k.accepted) + 1]

\* a client that puts an intent on the wire while the setup is unacknowledged
ClientSendAtOnce(k, m) ==
    IF ClientCanSend(k)
    THEN [k EXCEPT !.wire = Append(@, Stamp(k, m)), !.accepted = Append(@, Stamp(k, m))]
    ELSE k

ClientSend(k, m) ==
    IF k.st = "Active"
    THEN [k EXCEPT !.wire = Append(@, Stamp(k, m)), !.accepted = Append(@, Stamp(k, m))]
    ELSE IF k.st = "AwaitingSetupAck"
    THEN [k EXCEPT !.outq = Append(@, Stamp(k, m)), !.accepted = Append(@, Stamp(k, m))]
    ELSE k

\* client.disconnect(): closes the transport, idempotently.  Nothing is sent
\* or received on a closed transport, so what a closed client queued, sent
\* and listens for plays no part any more and is not kept.
ClosedClient == [NoClient EXCEPT !.st = "Disconnected"]

ClientDisconnect(k) == ClosedClient

\* a connect() that takes up again the handle of a session that was closed
FreshOrClosed == {c \in ClientIds : clients[c].st \in {"None", "Disconnected"}}

\* the handles no connect() has constructed yet
Fresh == {c \in ClientIds : clients[c].st = "None"}

\* ------------------------------------------------------- the audio sink
\* isInitialized: the flag the agent reads and writes.  queue: the entries
\* scheduled and not yet rendered.  primed: the output pipeline is prepared
\* (initialize() ran and no stop() since).  stopped, unprimed: history of this
\* streamer, a stop() was called on it, a chunk was streamed while not primed.
NoStreamer == [isInitialized |-> FALSE, queue |-> 0, primed |-> FALSE,
               stopped |-> FALSE, unprimed |-> FALSE]

\* AudioStreamer.initialize(): primes the output pipeline
StreamerInitialize(s) == [s EXCEPT !.isInitialized = TRUE, !.primed = TRUE]

\* new AudioStreamer(context)
NewStreamer == NoStreamer

\* AudioStreamer.stop(): silences, discards the scheduled entries, resets the clock
StreamerStop(s) == [s EXCEPT !.queue = 0, !.primed = FALSE, !.stopped = TRUE]

\* AudioStreamer.streamAudio(chunk)
StreamerStreamAudio(s) ==
    [s EXCEPT !.queue = @ + 1, !.unprimed = @ \/ ~s.primed]

\* The output timeline of the sink.  now: the clock of the output device.
\* next: the next scheduled start time.  entries: the time slots scheduled
\* and not yet rendered to their end.  History since the last stop(), or
\* since the streamer was made: count, the chunks streamed; first, where the
\* first of them starts; lastStart and lastEnd, the slot of the last; total,
\* the sum of their durations; gaps, the time between them left without a
\* slot.  discarded: the entries the last stop() threw away.
NoSink == [now |-> 0, next |-> 0, entries |-> <<>>, count |-> 0, first |-> 0,
           lastStart |-> 0, lastEnd |-> 0, total |-> 0, gaps |-> 0, discarded |-> 0]

Durations == 1..MaxDuration

\* a sink that schedules every chunk at the device time
SinkStreamAudioAtNow(s, d) ==
    [s EXCEPT !.entries = Append(@, [start |-> s.now, end |-> s.now + d]),
              !.next = s.now + d,
              !.count = @ + 1,
              !.first = IF s.count = 0 THEN s.now ELSE @,
              !.lastStart = s.now,
              !.lastEnd = s.now + d,
              !.total = @ + d,
              !.gaps = IF s.count > 0 /\ s.now > s.lastEnd
                       THEN @ + (s.now - s.lastEnd) ELSE @]

\* where streamAudio() schedules a chunk: where the previous one ends, or at
\* the device time if the clock has passed that point
SinkStart(s) == IF s.next < s.now THEN s.now ELSE s.next

\* AudioStreamer.streamAudio(chunk), chunk lasting d: its place on the timeline
SinkStreamAudio(s, d) ==
    [s EXCEPT !.entries = Append(@, [start |-> SinkStart(s), end |-> SinkStart(s) + d]),
              !.next = SinkStart(s) + d,
              !.count = @ + 1,
              !.first = IF s.count = 0 THEN SinkStart(s) ELSE @,
              !.lastStart = SinkStart(s),
              !.lastEnd = SinkStart(s) + d,
              !.total = @ + d,
              !.gaps = IF s.count > 0 /\ SinkStart(s) > s.lastEnd
                       THEN @ + (SinkStart(s) - s.lastEnd) ELSE @]

\* AudioStreamer.stop(): the scheduled entries are discarded and the
\* scheduling clock is reset
SinkStop(s) == [NoSink EXCEPT !.now = s.now, !.discarded = Len(s.entries)]

\* the device clock advances by one unit; the entries that end by then are
\* rendered
SinkAdvance(s) ==
    [s EXCEPT !.now = @ + 1,
              !.entries = SelectSeq(@, LAMBDA e : e.end > s.now + 1)]

\* ----------------------------------------------------- the tool manager
\* received: function calls of this id in the toolCall envelopes received;
\* invoked: toolManager.handleToolCall() calls made for this id; inflight:
\* those that have not returned; responded: toolResponse envelopes a client
\* accepted for this id.
NoTool == [received |-> 0, invoked |-> 0, inflight |-> 0, responded |-> 0]

\* ---------------------------------------------------------- the capturers
NoCapturer == [isInitialized |-> FALSE, stream |-> FALSE]

\* dispose(): releases the source
CapturerDispose(c) == [c EXCEPT !.isInitialized = FALSE, !.stream = FALSE]

ClearTimer(tm, kind) == [tm EXCEPT ![kind] = @ - 1]
SetTimer(tm, kind) == [tm EXCEPT ![kind] = @ + 1]

\* ------------------------------------------------------------- agent.emit
\* the page listens for 'screenshare_stopped' and clears its flag
Emit(w, ev) ==
    [w EXCEPT !.em = Append(@, ev),
              !.pg.isScreenShareActive = @ /\ ev # "screenshare_stopped"]

\* a stopCameraCapture() that stops the screen share as well
StopCameraCaptureStopsBoth(w) ==
    [w EXCEPT !.tm = [camera |-> IF w.a.cameraInterval THEN @.camera - 1 ELSE @.camera,
                      screen |-> IF w.a.screenInterval THEN @.screen - 1 ELSE @.screen],
              !.a.cameraInterval = FALSE,
              !.a.screenInterval = FALSE,
              !.cam = CapturerDispose(@),
              !.scr = CapturerDispose(@)]

\* stopCameraCapture(): the timer is cleared if there is one, and the camera
\* manager is disposed
StopCameraCaptureBody(w) ==
    [w EXCEPT !.tm = IF w.a.cameraInterval THEN ClearTimer(@, "camera") ELSE @,
              !.a.cameraInterval = IF @ THEN FALSE ELSE @,
              !.cam = CapturerDispose(@),
              !.rl = Append(@, "camera")]

\* stopScreenShare(): the same for the screen
StopScreenShareBody(w) ==
    [w EXCEPT !.tm = IF w.a.screenInterval THEN ClearTimer(@, "screen") ELSE @,
              !.a.screenInterval = IF @ THEN FALSE ELSE @,
              !.scr = CapturerDispose(@),
              !.rl = Append(@, "screen")]

\* ------------------------------------------------------------- disconnect
\* disconnect(), from the recorder up to the await on audioContext.close():
\* each resource that is set is stopped and its field set to null; a
\* keep-alive timer is cleared only inside the check of its transcriber
DisconnectAudio(w) ==
    [w EXCEPT !.md.recordings = IF w.a.audioRecorder \in {"recording", "paused"}
                                THEN @ - 1 ELSE @,
              !.a.audioRecorder = IF @ # "null" THEN "null" ELSE @,
              !.a.visualizer = IF @ THEN FALSE ELSE @,
              !.st = IF w.a.audioStreamer THEN NoStreamer ELSE @,
              !.sk = IF w.a.audioStreamer THEN NoSink ELSE @,
              !.a.audioStreamer = IF @ THEN FALSE ELSE @,
              !.a.modelsKeepAliveInterval =
                  IF w.a.modelTranscriber # "null" /\ @ THEN FALSE ELSE @,
              !.a.modelTranscriber = IF @ # "null" THEN "null" ELSE @,
              !.a.userKeepAliveInterval =
                  IF w.a.userTranscriber # "null" /\ @ THEN FALSE ELSE @,
              !.a.userTranscriber = IF @ # "null" THEN "null" ELSE @,
              !.rl = @ \o (IF w.a.audioRecorder # "null" THEN <<"recorder">> ELSE <<>>)
                       \o (IF w.a.visualizer THEN <<"visualizer">> ELSE <<>>)
                       \o (IF w.a.audioStreamer THEN <<"streamer">> ELSE <<>>)
                       \o (IF w.a.modelTranscriber # "null"
                           THEN <<"modelTranscriber">> ELSE <<>>)
                       \o (IF w.a.userTranscriber # "null"
                           THEN <<"userTranscriber">> ELSE <<>>)]

\* a disconnect() that releases the audio resources before it stops the
\* capturers
DisconnectCleanupAudioFirst(w) ==
    StopScreenShareBody(StopCameraCaptureBody(DisconnectAudio(w)))

\* a disconnect() that returns from its cleanup at the first resource it
\* finds absent
DisconnectCleanupChained(w) ==
    IF ~w.a.cameraInterval THEN w
    ELSE IF ~w.a.screenInterval THEN StopCameraCaptureBody(w)
    ELSE DisconnectAudio(StopScreenShareBody(StopCameraCaptureBody(w)))

\* disconnect(), up to the await on audioContext.close()
DisconnectCleanup(w) ==
    DisconnectAudio(StopScreenShareBody(StopCameraCaptureBody(w)))

\* disconnect(), from "Cleanup WebSocket" on: this.client.disconnect() comes first
ClientIsNull(w) == w.a.client = NULL

DisconnectClient(w) ==
    [w EXCEPT !.cl[w.a.client] = ClientDisconnect(@),
              !.a.client = NULL,
              !.a.initialized = FALSE,
              !.a.connected = FALSE,
              !.rl = @ \o <<"client", "flags">>]

\* disconnect() as a whole, up to its return or its suspension.  closeRejects:
\* whether close() on a context that is already closing rejects.
DisconnectFinish(w) ==
    IF ClientIsNull(w)
    THEN [w |-> w, out |-> "error"]
    ELSE [w |-> DisconnectClient(w), out |-> "ok"]

DisconnectRun(w, closeRejects) ==
    LET w1 == DisconnectCleanup(w)
    IN IF w1.a.audioContext = "null" THEN DisconnectFinish(w1)
       ELSE IF w1.a.audioContext = "closing" /\ closeRejects
       THEN [w |-> w1, out |-> "error"]
       ELSE [w |-> [w1 EXCEPT !.a.audioContext = "closing",
                              !.md.contexts = IF w1.a.audioContext = "running"
                                              THEN @ - 1 ELSE @,
                              !.rl = Append(@, "context")],
             out |-> "suspend"]

\* the continuation of disconnect() after the await on audioContext.close()
DisconnectAfterClose(w) == DisconnectFinish([w EXCEPT !.a.audioContext = "null"])

PendingDisconnects == pend.disconnect + pend.cameraDisconnect

\* A disconnect() suspends (by = "disconnect": called by the page; by =
\* "cameraDisconnect": called by the catch block of startCameraCapture()).
\* overlap records that it was invoked on an agent that holds a client while
\* another disconnect() was suspended, until none is suspended any more.
Suspend(w, by) ==
    [w EXCEPT !.pd[by] = @ + 1,
              !.pd.overlap = @ \/ (w.pd.disconnect + w.pd.cameraDisconnect > 0
                                    /\ w.a.client # NULL)]

Resumed(w) ==
    IF w.pd.disconnect + w.pd.cameraDisconnect = 0
    THEN [w EXCEPT !.pd.overlap = FALSE] ELSE w

\* ------------------------------------------------------------- initialize
\* initialize(), from `initialized = true` on
InitializeFinish(w) ==
    LET w1 == [w EXCEPT !.a.initialized = TRUE]
    IN IF ClientIsNull(w1)
       THEN [w |-> w1, out |-> "error"]
       ELSE [w |-> [w1 EXCEPT !.cl[w1.a.client] = ClientSend(@, Msg("text", 0))],
             out |-> "ok"]

\* initialize(): the audio components
InitializeAudio(w) ==
    [w EXCEPT !.a.audioContext = "running",
              !.md.contexts = @ + 1,
              !.a.audioStreamer = TRUE,
              !.st = StreamerInitialize(NewStreamer),
              !.sk = NoSink,
              !.a.visualizer = TRUE,
              !.a.audioRecorder = "idle"]

\* initialize(), up to its return or its first await
InitializeRun(w, c) ==
    LET w1 == InitializeAudio(w)
    IN IF c = "none" THEN InitializeFinish(w1)
       ELSE [w |-> [w1 EXCEPT !.a.modelTranscriber = "connecting", !.pd.init = "model"],
             out |-> "suspend"]

\* the model transcriber connected: its 'connected' listener sets the
\* keep-alive timer, and initialize() goes on
InitializeAfterModel(w, c) ==
    LET w1 == [w EXCEPT !.a.modelTranscriber = "connected",
                        !.a.modelsKeepAliveInterval = TRUE,
                        !.pd.init = "none"]
    IN IF c = "both"
       THEN [w |-> [w1 EXCEPT !.a.userTranscriber = "connecting", !.pd.init = "user"],
             out |-> "suspend"]
       ELSE InitializeFinish(w1)

InitializeAfterUser(w) ==
    InitializeFinish([w EXCEPT !.a.userTranscriber = "connected",
                               !.a.userKeepAliveInterval = TRUE,
                               !.pd.init = "none"])

\* ---------------------------------------------------------------- outcome
Result(out) == IF out = "suspend" THEN "pending" ELSE out

\* the heap when the constructor is entered and, the fields being those the
\* constructor sets, when it returns
InitHeap ==
    /\ agent = NewAgent
    /\ clients = [c \in ClientIds |-> NoClient]
    /\ streamer = NoStreamer
    /\ sink = NoSink
    /\ camera = NoCapturer
    /\ screen = NoCapturer
    /\ timers = [camera |-> 0, screen |-> 0]
    /\ media = [contexts |-> 0, recordings |-> 0]
    /\ pend = [connect |-> {}, ready |-> {}, disconnect |-> 0, cameraDisconnect |-> 0,
               overlap |-> FALSE, init |-> "none", camera |-> 0, screen |-> 0,
               mic |-> 0, frame |-> {}]
    /\ tools = [i \in CallIds |-> NoTool]
    /\ cfg \in Configs
    /\ ret = Event("none")
    /\ emitted = <<>>
    /\ page = [isCameraActive |-> FALSE, isScreenShareActive |-> FALSE]
    /\ released = <<>>

\* an agent constructed with every option given
Init == InitHeap /\ built = Constructor(GivenOptions)

\* the page before it constructs the agent
InitNotConstructed == InitHeap /\ cfg = "none" /\ built = NotConstructed

\* new GeminiAgent(o)
New ==
    /\ built.out = "none"
    /\ \E o \in Options : built' = Constructor(o)
    /\ ret' = Ret("constructor", "call", built'.out)
    /\ UNCHANGED <<agent, clients, streamer, sink, camera, screen, timers, media, pend,
                   tools, cfg, emitted, page, released>>

\* ---------------------------------------------------------------- connect
\* setupEventListeners(): this.client.on(...) for the four inbound events
SetupEventListeners(w) == [w EXCEPT !.cl[w.a.client].handlers = @ + 1]

\* connect(), from the await on client.connect() on
ConnectAfterOpen(w) ==
    IF ClientIsNull(w)
    THEN [w |-> w, out |-> "error"]
    ELSE [w |-> [SetupEventListeners(w) EXCEPT !.a.connected = TRUE], out |-> "ok"]

\* connect(), up to the await on client.connect()
Connect ==
    \E c \in Fresh :
        /\ \A d \in Fresh : c <= d
        /\ Commit([World EXCEPT !.a.client = c, !.cl[c] = NewClient,
                                !.pd.connect = @ \cup {c}])
        /\ ret' = Ret("connect", "call", "pending")

\* the transport of c opened; the connect() awaiting it resumes (a connect()
\* that nothing awaits: the page's own, or a caller's)
ClientOpened ==
    \E c \in pend.connect \ pend.ready :
        /\ clients[c].st = "Connecting"
        /\ LET r == ConnectAfterOpen([World EXCEPT !.cl[c] = ClientOnOpen(@),
                                                   !.pd.connect = @ \ {c}])
           IN Commit(r.w) /\ ret' = Ret("connect", "resume", r.out)

\* the transport of c failed to open, or c was closed while opening:
\* client.connect() rejects
ClientOpenFailed ==
    \E c \in pend.connect :
        /\ clients[c].st \in {"Connecting", "Disconnected"}
        /\ Commit([World EXCEPT !.cl[c] = ClosedClient, !.pd.connect = @ \ {c},
                                !.pd.ready = @ \ {c}])
        /\ ret' = Ret("connect", "resume", "error")

\* the remote side acknowledged the setup envelope of c
SetupComplete ==
    \E c \in ClientIds :
        /\ clients[c].st = "AwaitingSetupAck"
        /\ Commit([World EXCEPT !.cl[c] = ClientOnSetupComplete(@)])
        /\ ret' = Event("none")

\* transport error or remote close on c
RemoteClose ==
    \E c \in ClientIds :
        /\ clients[c].st \in {"AwaitingSetupAck", "Active"}
        /\ Commit([World EXCEPT !.cl[c] = ClosedClient])
        /\ ret' = Event("none")

\* ------------------------------------------------------------- disconnect
Disconnect ==
    \E closeRejects \in BOOLEAN :
        LET r == DisconnectRun(World, closeRejects)
        IN /\ r.out = "suspend" => PendingDisconnects < MaxPending
           /\ Commit(IF r.out = "suspend" THEN Suspend(r.w, "disconnect") ELSE r.w)
           /\ ret' = Ret("disconnect", "call", Result(r.out))

\* audioContext.close() settled: a suspended disconnect() resumes
DisconnectResume ==
    /\ pend.disconnect > 0
    /\ LET r == DisconnectAfterClose([World EXCEPT !.pd.disconnect = @ - 1])
       IN Commit(Resumed(r.w)) /\ ret' = Ret("disconnect", "resume", r.out)

\* ------------------------------------------------------------- initialize
Initialize ==
    /\ pend.init = "none"
    /\ media.contexts < MaxContexts
    /\ \A c \in ClientIds : Len(clients[c].accepted) < MaxOut
    /\ LET r == InitializeRun(World, cfg)
       IN Commit(r.w) /\ ret' = Ret("initialize", "call", Result(r.out))

\* the transcriber that initialize() awaits connected
TranscriberConnected ==
    \/ /\ pend.init = "model"
       /\ agent.modelTranscriber = "connecting"
       /\ LET r == InitializeAfterModel(World, cfg)
          IN Commit(r.w) /\ ret' = Ret("initialize", "resume", Result(r.out))
    \/ /\ pend.init = "user"
       /\ agent.userTranscriber = "connecting"
       /\ LET r == InitializeAfterUser(World)
          IN Commit(r.w) /\ ret' = Ret("initialize", "resume", r.out)

\* the transcriber that initialize() awaits failed to connect, or was
\* disconnected while connecting: initialize() rejects from its catch
TranscriberFailed ==
    /\ pend.init # "none"
    /\ Commit([World EXCEPT !.pd.init = "none"])
    /\ ret' = Ret("initialize", "resume", "error")

\* --------------------------------------------------------- ensureAgentReady
\* a click on the connect button, whose handler is ensureAgentReady(agent)
\* alone: connect() when the agent is not connected (pend.ready: the clients
\* whose connect() an ensureAgentReady awaits), else initialize() when it is
\* not initialized, else nothing.  The page called connect() before it
\* installed the handler.
ConnectClick ==
    IF ~agent.connected
    THEN \E c \in Fresh :
            /\ \E d \in ClientIds : clients[d].st # "None"
            /\ \A d \in Fresh : c <= d
            /\ Commit([World EXCEPT !.a.client = c, !.cl[c] = NewClient,
                                    !.pd.connect = @ \cup {c},
                                    !.pd.ready = @ \cup {c}])
            /\ ret' = Ret("connect", "call", "pending")
    ELSE IF ~agent.initialized
    THEN Initialize
    ELSE Commit(World) /\ ret' = Ret("ensureAgentReady", "call", "ok")

\* the transport of c opened: the connect() that an ensureAgentReady awaits
\* resumes, and ensureAgentReady goes on to its second test
ConnectClickOpened ==
    \E c \in pend.ready :
        /\ clients[c].st = "Connecting"
        /\ LET r == ConnectAfterOpen([World EXCEPT !.cl[c] = ClientOnOpen(@),
                                                   !.pd.connect = @ \ {c},
                                                   !.pd.ready = @ \ {c}])
           IN IF r.out = "ok" /\ ~r.w.a.initialized
              THEN /\ pend.init = "none"
                   /\ media.contexts < MaxContexts
                   /\ \A d \in ClientIds : Len(clients[d].accepted) < MaxOut
                   /\ Commit(InitializeRun(r.w, cfg).w)
                   /\ ret' = Ret("initialize", "call", Result(InitializeRun(r.w, cfg).out))
              ELSE Commit(r.w) /\ ret' = Ret("connect", "resume", r.out)

\* --------------------------------------------------------------- sendText
\* a sendText() that announces the text before it hands it to the client
SendTextEmitsFirst(w) ==
    IF ClientIsNull(w) \/ ~ClientCanSend(w.cl[w.a.client])
    THEN [w |-> Emit(w, "text_sent"), out |-> "error"]
    ELSE [w |-> Emit([w EXCEPT !.cl[w.a.client] = ClientSend(@, Msg("text", 0))],
                     "text_sent"),
          out |-> "ok"]

SendTextRun(w) ==
    IF ClientIsNull(w) \/ ~ClientCanSend(w.cl[w.a.client])
    THEN [w |-> w, out |-> "error"]
    ELSE [w |-> Emit([w EXCEPT !.cl[w.a.client] = ClientSend(@, Msg("text", 0))],
                     "text_sent"),
          out |-> "ok"]

SendText ==
    /\ \A c \in ClientIds : Len(clients[c].accepted) < MaxOut
    /\ LET r == SendTextRun(World)
       IN Commit(r.w) /\ ret' = Ret("sendText", "call", r.out)

\* ---------------------------------------------------------------- camera
\* startCameraCapture(): the rest of the try block, once
\* cameraManager.initialize() has returned
StartCameraTimer(w) ==
    [w EXCEPT !.tm = SetTimer(@, "camera"), !.a.cameraInterval = TRUE]

\* a startCameraCapture() without its guard
CameraGuardAbsent(w) == TRUE

\* startCameraCapture(): the guard
CameraGuard(w) == w.a.connected

\* CameraManager.initialize() acquired the device
CameraInitialize(c) == [c EXCEPT !.isInitialized = TRUE, !.stream = TRUE]

StartCameraCapture ==
    IF ~CameraGuard(World)
    THEN Commit(World) /\ ret' = Ret("startCameraCapture", "call", "error")
    ELSE IF camera.isInitialized
    THEN /\ timers.camera < MaxTimers
         /\ Commit(StartCameraTimer(World))
         /\ ret' = Ret("startCameraCapture", "call", "ok")
    ELSE /\ pend.camera < MaxStarts
         /\ Commit([World EXCEPT !.pd.camera = @ + 1])
         /\ ret' = Ret("startCameraCapture", "call", "pending")

\* the camera was acquired; the startCameraCapture() awaiting it resumes
CameraAcquired ==
    /\ pend.camera > 0
    /\ timers.camera < MaxTimers
    /\ Commit(StartCameraTimer([World EXCEPT !.cam = CameraInitialize(@),
                                             !.pd.camera = @ - 1]))
    /\ ret' = Ret("startCameraCapture", "resume", "ok")

\* the camera could not be acquired: the catch block runs disconnect()
CameraFailed ==
    \E closeRejects \in BOOLEAN :
        /\ pend.camera > 0
        /\ LET r == DisconnectRun([World EXCEPT !.pd.camera = @ - 1], closeRejects)
           IN /\ r.out = "suspend" => PendingDisconnects < MaxPending
              /\ Commit(IF r.out = "suspend"
                        THEN Suspend(r.w, "cameraDisconnect") ELSE r.w)
              /\ ret' = Ret("startCameraCapture", "resume",
                            IF r.out = "suspend" THEN "pending" ELSE "error")

\* the disconnect() run by the catch block of startCameraCapture() resumes,
\* and startCameraCapture() rejects
CameraDisconnectResume ==
    /\ pend.cameraDisconnect > 0
    /\ Commit(Resumed(DisconnectAfterClose(
                  [World EXCEPT !.pd.cameraDisconnect = @ - 1]).w))
    /\ ret' = Ret("startCameraCapture", "resume", "error")

StopCameraCapture ==
    /\ Commit(StopCameraCaptureBody(World))
    /\ ret' = Ret("stopCameraCapture", "call", "ok")

\* ---------------------------------------------------------------- screen
\* ScreenManager.initialize(), once getDisplayMedia() and play() resolved
ScreenInitialize(c) == [c EXCEPT !.isInitialized = TRUE, !.stream = TRUE]

\* an onStop that emits the event and leaves the timer running
OnStopKeepsTimer(w) == Emit(w, "screenshare_stopped")

\* the onStop callback the constructor hands to the ScreenManager
OnStop(w) ==
    LET w1 == IF w.a.screenInterval
              THEN [w EXCEPT !.tm = ClearTimer(@, "screen"), !.a.screenInterval = FALSE]
              ELSE w
    IN Emit(w1, "screenshare_stopped")

\* an 'ended' or 'visibilitychange' listener that notifies the owner and
\* does not dispose the capturer
OnTrackEndedKeepsStream(w) == OnStop(w)

\* the 'ended' listener ScreenManager.initialize() puts on the video track
OnTrackEnded(w) == OnStop([w EXCEPT !.scr = CapturerDispose(@)])

StartScreenTimer(w) ==
    [w EXCEPT !.tm = SetTimer(@, "screen"), !.a.screenInterval = TRUE]

ScreenGuard(w) == w.a.connected

StartScreenShare ==
    IF ~ScreenGuard(World)
    THEN Commit(World) /\ ret' = Ret("startScreenShare", "call", "error")
    ELSE IF screen.isInitialized
    THEN /\ timers.screen < MaxTimers
         /\ Commit(StartScreenTimer(World))
         /\ ret' = Ret("startScreenShare", "call", "ok")
    ELSE /\ pend.screen < MaxStarts
         /\ Commit([World EXCEPT !.pd.screen = @ + 1])
         /\ ret' = Ret("startScreenShare", "call", "pending")

\* the screen was acquired; the startScreenShare() awaiting it resumes
ScreenAcquired ==
    /\ pend.screen > 0
    /\ timers.screen < MaxTimers
    /\ Commit(StartScreenTimer([World EXCEPT !.scr = ScreenInitialize(@),
                                             !.pd.screen = @ - 1]))
    /\ ret' = Ret("startScreenShare", "resume", "ok")

\* the screen could not be acquired: the catch block runs stopScreenShare()
\* a catch block of startScreenShare() that tears the session down, as the
\* one of startCameraCapture() does
ScreenCatchDisconnects(w) == DisconnectRun(w, FALSE).w

\* the catch block of startScreenShare(): await this.stopScreenShare()
ScreenCatch(w) == StopScreenShareBody(w)

\* the screen could not be acquired: startScreenShare() rejects from its catch
ScreenFailed ==
    /\ pend.screen > 0
    /\ Commit(ScreenCatch([World EXCEPT !.pd.screen = @ - 1]))
    /\ ret' = Ret("startScreenShare", "resume", "error")

StopScreenShare ==
    /\ Commit(StopScreenShareBody(World))
    /\ ret' = Ret("stopScreenShare", "call", "ok")

\* the shared source ended from outside (the browser's own stop control)
TrackEnded ==
    /\ screen.isInitialized /\ screen.stream
    /\ Commit(OnTrackEnded(World))
    /\ ret' = Event("trackEnded")

\* ------------------------------------------------- the toggle and disconnect buttons
\* A click on the camera button of a page whose agent ensureAgentReady finds
\* ready: stopCameraCapture() when the flag is set, else startCameraCapture(),
\* and the flag is inverted when the call has returned.
CameraClick ==
    /\ agent.connected /\ agent.initialized
    /\ IF page.isCameraActive
       THEN /\ Commit([StopCameraCaptureBody(World) EXCEPT !.pg.isCameraActive = FALSE])
            /\ ret' = Ret("stopCameraCapture", "call", "ok")
       ELSE IF camera.isInitialized
       THEN /\ timers.camera < MaxTimers
            /\ Commit([StartCameraTimer(World) EXCEPT !.pg.isCameraActive = TRUE])
            /\ ret' = Ret("startCameraCapture", "call", "ok")
       ELSE /\ pend.camera < MaxStarts
            /\ Commit([World EXCEPT !.pd.camera = @ + 1])
            /\ ret' = Ret("startCameraCapture", "call", "pending")

\* the camera was acquired: startCameraCapture() resumes and returns, and the
\* handler inverts the flag as it is now
CameraClickAcquired ==
    /\ pend.camera > 0
    /\ timers.camera < MaxTimers
    /\ Commit([StartCameraTimer([World EXCEPT !.cam = CameraInitialize(@),
                                              !.pd.camera = @ - 1])
                  EXCEPT !.pg.isCameraActive = ~@])
    /\ ret' = Ret("startCameraCapture", "resume", "ok")

\* the camera could not be acquired: startCameraCapture() runs disconnect()
\* and rejects, and the catch block of the handler clears the flag
CameraClickFailed ==
    \E closeRejects \in BOOLEAN :
        /\ pend.camera > 0
        /\ LET r == DisconnectRun([World EXCEPT !.pd.camera = @ - 1], closeRejects)
           IN /\ r.out = "suspend" => PendingDisconnects < MaxPending
              /\ Commit(IF r.out = "suspend"
                        THEN Suspend(r.w, "cameraDisconnect")
                        ELSE [r.w EXCEPT !.pg.isCameraActive = FALSE])
              /\ ret' = Ret("startCameraCapture", "resume",
                            IF r.out = "suspend" THEN "pending" ELSE "error")

CameraClickFailedResume ==
    /\ pend.cameraDisconnect > 0
    /\ Commit([Resumed(DisconnectAfterClose(
                   [World EXCEPT !.pd.cameraDisconnect = @ - 1]).w)
                  EXCEPT !.pg.isCameraActive = FALSE])
    /\ ret' = Ret("startCameraCapture", "resume", "error")

\* the same for the screen button, whose flag the 'screenshare_stopped'
\* listener clears as well
ScreenClick ==
    /\ agent.connected /\ agent.initialized
    /\ IF page.isScreenShareActive
       THEN /\ Commit([StopScreenShareBody(World) EXCEPT !.pg.isScreenShareActive = FALSE])
            /\ ret' = Ret("stopScreenShare", "call", "ok")
       ELSE IF screen.isInitialized
       THEN /\ timers.screen < MaxTimers
            /\ Commit([StartScreenTimer(World) EXCEPT !.pg.isScreenShareActive = TRUE])
            /\ ret' = Ret("startScreenShare", "call", "ok")
       ELSE /\ pend.screen < MaxStarts
            /\ Commit([World EXCEPT !.pd.screen = @ + 1])
            /\ ret' = Ret("startScreenShare", "call", "pending")

ScreenClickAcquired ==
    /\ pend.screen > 0
    /\ timers.screen < MaxTimers
    /\ Commit([StartScreenTimer([World EXCEPT !.scr = ScreenInitialize(@),
                                              !.pd.screen = @ - 1])
                  EXCEPT !.pg.isScreenShareActive = ~@])
    /\ ret' = Ret("startScreenShare", "resume", "ok")

ScreenClickFailed ==
    /\ pend.screen > 0
    /\ Commit([ScreenCatch([World EXCEPT !.pd.screen = @ - 1])
                  EXCEPT !.pg.isScreenShareActive = FALSE])
    /\ ret' = Ret("startScreenShare", "resume", "error")

\* a click on the disconnect button: disconnect(), and when it has returned
\* normally the handler clears isCameraActive
DisconnectClick ==
    \E closeRejects \in BOOLEAN :
        LET r == DisconnectRun(World, closeRejects)
        IN /\ r.out = "suspend" => PendingDisconnects < MaxPending
           /\ Commit(IF r.out = "suspend" THEN Suspend(r.w, "disconnect")
                     ELSE IF r.out = "ok" THEN [r.w EXCEPT !.pg.isCameraActive = FALSE]
                     ELSE r.w)
           /\ ret' = Ret("disconnect", "call", Result(r.out))

\* a disconnect() whose audioRecorder.stop() raises: the capturers are
\* stopped, the catch block rethrows, and nothing after the recorder is
\* reached (the handler of the disconnect button logs the error)
DisconnectRaises ==
    /\ agent.audioRecorder # "null"
    /\ Commit(StopScreenShareBody(StopCameraCaptureBody(World)))
    /\ ret' = Ret("disconnect", "call", "error")

DisconnectClickResume ==
    /\ pend.disconnect > 0
    /\ LET r == DisconnectAfterClose([World EXCEPT !.pd.disconnect = @ - 1])
       IN /\ Commit(IF r.out = "ok"
                    THEN [Resumed(r.w) EXCEPT !.pg.isCameraActive = FALSE]
                    ELSE Resumed(r.w))
          /\ ret' = Ret("disconnect", "resume", r.out)

\* the 'visibilitychange' listeners on the document, one for every
\* ScreenManager.initialize() that completed and none ever removed; each
\* tests document.hidden && this.stream
RECURSIVE OnVisibilityChange(_, _)
OnVisibilityChange(n, w) ==
    IF n = 0 THEN w
    ELSE OnVisibilityChange(n - 1, IF w.scr.stream THEN OnTrackEnded(w) ELSE w)

\* the page became hidden, n listeners installed
PageHidden ==
    \E n \in 1..MaxListeners :
        /\ screen.isInitialized
        /\ Commit(OnVisibilityChange(n, World))
        /\ ret' = Event("pageHidden")

\* ------------------------------------------------------------ timer ticks
\* the callback of a capture timer: await capture(), then client.sendImage(),
\* not awaited.  A disposed capturer has no frame to give, and a null client
\* cannot be called: the promise of the callback rejects.
CaptureTick(w, capturer) ==
    IF ~capturer.isInitialized \/ ClientIsNull(w) \/ ~ClientCanSend(w.cl[w.a.client])
    THEN [w |-> w, out |-> "error"]
    ELSE [w |-> [w EXCEPT !.cl[w.a.client] = ClientSend(@, Msg("image", 0))],
          out |-> "ok"]

\* a live camera timer fires
CameraTick ==
    /\ timers.camera > 0
    /\ \A c \in ClientIds : Len(clients[c].accepted) < MaxOut
    /\ LET r == CaptureTick(World, camera)
       IN Commit(r.w) /\ ret' = Ret("cameraTick", "event", r.out)

\* a live screen timer fires
ScreenTick ==
    /\ timers.screen > 0
    /\ \A c \in ClientIds : Len(clients[c].accepted) < MaxOut
    /\ LET r == CaptureTick(World, screen)
       IN Commit(r.w) /\ ret' = Ret("screenTick", "event", r.out)

\* The same callback when capture() does not settle at once.  pend.frame: the
\* client the agent held at each tick whose capture() is in flight (NULL:
\* none), one tick per client.
CaptureBegins ==
    /\ \/ timers.camera > 0 /\ camera.isInitialized
       \/ timers.screen > 0 /\ screen.isInitialized
    /\ agent.client \notin pend.frame
    /\ Commit([World EXCEPT !.pd.frame = @ \cup {agent.client}])
    /\ ret' = Ret("capture", "event", "pending")

\* a capture() in flight settled: it gave no frame (res "none": the callback
\* ends there), or it gave one and the callback calls this.client.sendImage()
\* on the client the agent holds now
FrameLands ==
    \E s \in pend.frame, frame \in BOOLEAN :
        /\ \A c \in ClientIds : Len(clients[c].accepted) < MaxOut
        /\ IF ~frame
           THEN Commit([World EXCEPT !.pd.frame = @ \ {s}])
                /\ ret' = Ret("frame", "event", "none")
           ELSE IF agent.client = NULL \/ ~ClientCanSend(clients[agent.client])
           THEN Commit([World EXCEPT !.pd.frame = @ \ {s}])
                /\ ret' = Ret("frame", "event", "error")
           ELSE Commit([World EXCEPT !.pd.frame = @ \ {s},
                                     !.cl[agent.client] = ClientSend(@, Msg("image", 0))])
                /\ ret' = Ret("frame", "event", "ok")

\* ---------------------------------------------------------- inbound events
\* the 'audio' listener of setupEventListeners().  The chunk is streamed
\* before modelTranscriber.sendAudio() is called: if that call throws, the
\* promise of the listener rejects with the chunk already on the sink.
AudioHandler(w) ==
    IF ~w.a.audioStreamer
    THEN w
    ELSE LET s1 == IF ~w.st.isInitialized THEN StreamerInitialize(w.st) ELSE w.st
         IN [w EXCEPT !.st = StreamerStreamAudio(s1)]

\* an 'interrupted' listener that stops the sink and leaves its flag set
InterruptedHandlerKeepsFlag(w) ==
    IF ~w.a.audioStreamer
    THEN w
    ELSE Emit([w EXCEPT !.st = StreamerStop(@)], "interrupted")

\* the 'interrupted' listener of setupEventListeners()
InterruptedHandler(w) ==
    IF ~w.a.audioStreamer
    THEN w
    ELSE Emit([w EXCEPT !.st = [StreamerStop(@) EXCEPT !.isInitialized = FALSE]],
              "interrupted")

\* the 'turn_complete' listener of setupEventListeners()
TurnCompleteHandler(w) == Emit(w, "turn_complete")

\* the client hands an event to each of the n listeners registered for it
RECURSIVE AudioListeners(_, _)
AudioListeners(n, w) ==
    IF n = 0 THEN w ELSE AudioListeners(n - 1, AudioHandler(w))

RECURSIVE InterruptedListeners(_, _)
InterruptedListeners(n, w) ==
    IF n = 0 THEN w ELSE InterruptedListeners(n - 1, InterruptedHandler(w))

RECURSIVE TurnCompleteListeners(_, _)
TurnCompleteListeners(n, w) ==
    IF n = 0 THEN w ELSE TurnCompleteListeners(n - 1, TurnCompleteHandler(w))

\* a serverContent envelope with an audio chunk arrived on c.  A listener
\* that finds this.audioStreamer null raises on its first statement (res:
\* "error"): the 'audio' listener rejects, the 'interrupted' listener throws
\* into the client's emit.
AudioEvent ==
    \E c \in ClientIds :
        /\ clients[c].st = "Active"
        /\ clients[c].handlers > 0
        /\ streamer.queue + clients[c].handlers <= MaxQueue
        /\ Commit(AudioListeners(clients[c].handlers, World))
        /\ ret' = Ret("audio", "event", IF agent.audioStreamer THEN "none" ELSE "error")

\* a serverContent envelope with the interrupted flag arrived on c
InterruptedEvent ==
    \E c \in ClientIds :
        /\ clients[c].st = "Active"
        /\ clients[c].handlers > 0
        /\ Commit(InterruptedListeners(clients[c].handlers, World))
        /\ ret' = Ret("interrupted", "event", IF agent.audioStreamer THEN "none" ELSE "error")

\* a serverContent envelope with the turn-complete flag arrived on c
TurnCompleteEvent ==
    \E c \in ClientIds :
        /\ clients[c].st = "Active"
        /\ clients[c].handlers > 0
        /\ Commit(TurnCompleteListeners(clients[c].handlers, World))
        /\ ret' = Event("turn_complete")

\* the output device finished rendering the entry at the head of the queue
PlaybackAdvance ==
    /\ streamer.queue > 0
    /\ Commit([World EXCEPT !.st.queue = @ - 1])
    /\ ret' = Event("none")

\* The same events with the output timeline: the chunk of an 'audio' event
\* lasts d, and the listeners run at the device time of the sink.
AudioHandlerAt(w, d) ==
    IF ~w.a.audioStreamer
    THEN w
    ELSE [AudioHandler(w) EXCEPT !.sk = SinkStreamAudio(@, d)]

\* an 'interrupted' listener that clears the flag and does not stop the sink
InterruptedHandlerAtKeepsQueue(w) ==
    IF ~w.a.audioStreamer
    THEN w
    ELSE Emit([w EXCEPT !.st.isInitialized = FALSE], "interrupted")

InterruptedHandlerAt(w) ==
    IF ~w.a.audioStreamer
    THEN w
    ELSE [InterruptedHandler(w) EXCEPT !.sk = SinkStop(@)]

RECURSIVE AudioListenersAt(_, _, _)
AudioListenersAt(n, w, d) ==
    IF n = 0 THEN w ELSE AudioListenersAt(n - 1, AudioHandlerAt(w, d), d)

RECURSIVE InterruptedListenersAt(_, _)
InterruptedListenersAt(n, w) ==
    IF n = 0 THEN w ELSE InterruptedListenersAt(n - 1, InterruptedHandlerAt(w))

AudioChunkEvent ==
    \E c \in ClientIds, d \in Durations :
        /\ clients[c].st = "Active"
        /\ clients[c].handlers > 0
        /\ streamer.queue + clients[c].handlers <= MaxQueue
        /\ SinkStart(sink) + clients[c].handlers * d <= MaxTime
        /\ Commit(AudioListenersAt(clients[c].handlers, World, d))
        /\ ret' = Ret("audio", "event", IF agent.audioStreamer THEN "none" ELSE "error")

InterruptionEvent ==
    \E c \in ClientIds :
        /\ clients[c].st = "Active"
        /\ clients[c].handlers > 0
        /\ Commit(InterruptedListenersAt(clients[c].handlers, World))
        /\ ret' = Ret("interrupted", "event", IF agent.audioStreamer THEN "none" ELSE "error")

\* the output device renders one clock unit
ClockAdvance ==
    /\ sink.now < MaxTime
    /\ Commit([World EXCEPT !.sk = SinkAdvance(@),
                            !.st.queue = IF agent.audioStreamer
                                         THEN Len(SinkAdvance(sink).entries) ELSE @])
    /\ ret' = Event("clock")

\* ------------------------------------------------------------- tool calls
\* handleToolCall(toolCall), up to the await on toolManager.handleToolCall():
\* the first function call of the batch is handed to the tool manager
HandleToolCall(w, ids) ==
    [w EXCEPT !.tl[ids[1]].invoked = @ + 1, !.tl[ids[1]].inflight = @ + 1]

\* handleToolCall(toolCall), from the await on: the response goes to the client
HandleToolResult(w, i) ==
    LET w1 == [w EXCEPT !.tl[i].inflight = @ - 1]
    IN IF ClientIsNull(w1) \/ ~ClientCanSend(w1.cl[w1.a.client])
       THEN w1
       ELSE [w1 EXCEPT !.cl[w1.a.client] = ClientSend(@, Msg("toolResponse", i)),
                       !.tl[i].responded = @ + 1]

\* the client decoded a toolCall envelope whose functionCalls are ids
ToolCallReceived(w, ids) ==
    [w EXCEPT !.tl = [i \in CallIds |->
                         IF \E n \in 1..Len(ids) : ids[n] = i
                         THEN [w.tl[i] EXCEPT !.received = @ + 1]
                         ELSE w.tl[i]]]

RECURSIVE ToolListeners(_, _, _)
ToolListeners(n, w, ids) ==
    IF n = 0 THEN w ELSE ToolListeners(n - 1, HandleToolCall(w, ids), ids)

\* a toolCall envelope with one function call, of a new id, arrived on c
ToolCallEvent ==
    \E c \in ClientIds, i \in ToolIds :
        /\ clients[c].st = "Active"
        /\ clients[c].handlers > 0
        /\ tools[i].invoked = 0
        /\ \A j \in ToolIds : j < i => tools[j].invoked > 0
        /\ \A d \in ClientIds : Len(clients[d].accepted) < MaxOut
        /\ Commit(ToolListeners(clients[c].handlers,
                                ToolCallReceived(World, <<i>>), <<i>>))
        /\ ret' = Event("tool_call")

\* a toolCall envelope with a batch of k function calls, of ids 1..k, arrived
\* on c, the first toolCall of the run
ToolBatchEvent ==
    \E c \in ClientIds, k \in 1..MaxBatch :
        /\ clients[c].st = "Active"
        /\ clients[c].handlers > 0
        /\ \A i \in CallIds : tools[i].received = 0
        /\ \A d \in ClientIds : Len(clients[d].accepted) < MaxOut
        /\ Commit(ToolListeners(clients[c].handlers,
                                ToolCallReceived(World, [n \in 1..k |-> n]),
                                [n \in 1..k |-> n]))
        /\ ret' = Event("tool_call")

\* the tool manager returned the result of a call it was handed
ToolResult ==
    \E i \in CallIds :
        /\ tools[i].inflight > 0
        /\ Commit(HandleToolResult(World, i))
        /\ ret' = Event("tool_result")

\* ------------------------------------------------------------ microphone
\* audioRecorder: "null" (no recorder), "idle" (a recorder without a stream),
\* "recording" (it holds the microphone and delivers chunks), "paused" (it
\* holds the microphone, delivery suspended by its toggleMic()).

\* AudioRecorder.stop() on the recorder the agent references
RecorderStop(w) ==
    [w EXCEPT !.md.recordings = IF w.a.audioRecorder \in {"recording", "paused"}
                                THEN @ - 1 ELSE @,
              !.a.audioRecorder = IF @ \in {"recording", "paused"} THEN "idle" ELSE @]

\* the callback startRecording() hands to the recorder, called with a chunk.
\* The send is not awaited.  raises: whether a send on a transport that is
\* not open throws inside the call, where the catch of the callback sees it,
\* or rejects the promise it returns, which nothing awaits.  traises: whether
\* userTranscriber.sendAudio() throws; it is called, inside the same try,
\* when the user transcriber is connected.
OnAudioData(w, raises, traises) ==
    IF ClientIsNull(w)
    THEN [w |-> RecorderStop(w), out |-> "error"]
    ELSE IF ~ClientCanSend(w.cl[w.a.client])
    THEN [w |-> IF raises THEN RecorderStop(w) ELSE w, out |-> "error"]
    ELSE IF w.a.userTranscriber = "connected" /\ traises
    THEN [w |-> RecorderStop([w EXCEPT !.cl[w.a.client] = ClientSend(@, Msg("audio", 0))]),
          out |-> "error"]
    ELSE [w |-> [w EXCEPT !.cl[w.a.client] = ClientSend(@, Msg("audio", 0))],
          out |-> "ok"]

\* toggleMic(), up to its return or to the await on audioRecorder.start()
ToggleMic ==
    IF agent.audioRecorder = "null"
    THEN Commit(World) /\ ret' = Ret("toggleMic", "call", "error")
    ELSE IF agent.audioRecorder = "idle"
    THEN /\ pend.mic < MaxStarts
         /\ Commit([World EXCEPT !.pd.mic = @ + 1])
         /\ ret' = Ret("toggleMic", "call", "pending")
    ELSE /\ Commit([World EXCEPT !.a.audioRecorder =
                        IF @ = "recording" THEN "paused" ELSE "recording"])
         /\ ret' = Ret("toggleMic", "call", "ok")

\* the microphone was acquired: a suspended startRecording() resumes.  A
\* recorder that disconnect() dropped meanwhile records all the same.
MicAcquired ==
    /\ pend.mic > 0
    /\ media.recordings < MaxRecordings
    /\ Commit([World EXCEPT !.pd.mic = @ - 1,
                            !.md.recordings = @ + 1,
                            !.a.audioRecorder = IF @ = "null" THEN @ ELSE "recording"])
    /\ ret' = Ret("toggleMic", "resume", "ok")

\* the microphone could not be acquired: startRecording() and toggleMic() reject
MicFailed ==
    /\ pend.mic > 0
    /\ Commit([World EXCEPT !.pd.mic = @ - 1])
    /\ ret' = Ret("toggleMic", "resume", "error")

\* a running capture delivers a chunk to the callback
AudioData ==
    \E raises \in BOOLEAN, traises \in BOOLEAN :
        /\ media.recordings > (IF agent.audioRecorder = "paused" THEN 1 ELSE 0)
        /\ \A c \in ClientIds : Len(clients[c].accepted) < MaxOut
        /\ LET r == OnAudioData(World, raises, traises)
           IN Commit(r.w) /\ ret' = Ret("audioData", "event", r.out)

\* ---------------------------------------------------------- specifications
Session ==
    \/ Connect
    \/ ClientOpened
    \/ ClientOpenFailed
    \/ SetupComplete
    \/ RemoteClose
    \/ Disconnect
    \/ DisconnectResume
    \/ Initialize

Transcribers ==
    \/ TranscriberConnected
    \/ TranscriberFailed

\* a page that waits for a start to settle before it calls the next one
StartCameraCaptureSerial == pend.camera = 0 /\ StartCameraCapture
StartScreenShareSerial == pend.screen = 0 /\ StartScreenShare

Capture ==
    \/ StartCameraCaptureSerial
    \/ CameraAcquired
    \/ CameraFailed
    \/ CameraDisconnectResume
    \/ StopCameraCapture
    \/ StartScreenShareSerial
    \/ ScreenAcquired
    \/ ScreenFailed
    \/ StopScreenShare
    \/ TrackEnded

Next ==
    \/ Session
    \/ Transcribers
    \/ SendText

Spec == Init /\ [][Next]_vars

\* The capture methods read of the session only agent.connected and write it
\* only through disconnect(): the capture specification leaves out the
\* transport events, which change neither.
SessionCore ==
    \/ Connect
    \/ ClientOpened
    \/ Disconnect
    \/ DisconnectResume
    \/ Initialize

NextCapture ==
    \/ SessionCore
    \/ Capture

\* an agent constructed without a Deepgram key
InitNoTranscriber == Init /\ cfg = "none"

SpecCapture == InitNoTranscriber /\ [][NextCapture]_vars

\* Starts that overlap: the click handlers of the page set their flags only
\* after the start they await has settled, so a second click calls the same
\* start while the first is suspended on the device.  The agent is never
\* initialized here, so a disconnect() has no audio context to wait for.
NextRace ==
    \/ Connect
    \/ ClientOpened
    \/ Disconnect
    \/ StartCameraCapture
    \/ CameraAcquired
    \/ CameraFailed
    \/ StopCameraCapture
    \/ StartScreenShare
    \/ ScreenAcquired
    \/ ScreenFailed
    \/ StopScreenShare
    \/ TrackEnded

SpecRace == InitNoTranscriber /\ [][NextRace]_vars

Microphone ==
    \/ ToggleMic
    \/ MicAcquired
    \/ MicFailed
    \/ AudioData

NextMic ==
    \/ SessionCore
    \/ SetupComplete
    \/ RemoteClose
    \/ Microphone

SpecMic == InitNoTranscriber /\ [][NextMic]_vars

Inbound ==
    \/ AudioEvent
    \/ InterruptedEvent
    \/ TurnCompleteEvent
    \/ PlaybackAdvance
    \/ ToolCallEvent
    \/ ToolResult

NextInbound ==
    \/ Session
    \/ Inbound

SpecInbound == InitNoTranscriber /\ [][NextInbound]_vars

\* The page from the construction of its agent on.
NextConstruct ==
    \/ New
    \/ Connect
    \/ ClientOpened
    \/ ClientOpenFailed
    \/ SetupComplete
    \/ RemoteClose
    \/ SendText
    \/ StartCameraCaptureSerial
    \/ CameraAcquired
    \/ StopCameraCapture

SpecConstruct == InitNotConstructed /\ [][NextConstruct]_vars

\* a page that connects once
ConnectOnce == (\A c \in ClientIds : clients[c].st = "None") /\ Connect

\* Capture with its timers firing: starts made one after the other, stops,
\* the end of the shared source, and the ticks of every live timer.
NextTicks ==
    \/ Connect
    \/ ClientOpened
    \/ Disconnect
    \/ StartCameraCaptureSerial
    \/ CameraAcquired
    \/ StopCameraCapture
    \/ StartScreenShareSerial
    \/ ScreenAcquired
    \/ StopScreenShare
    \/ TrackEnded
    \/ CameraTick
    \/ ScreenTick
    \/ CaptureBegins
    \/ FrameLands
    \/ PageHidden

SpecTicks == InitNoTranscriber /\ [][NextTicks]_vars

\* A session whose remote side calls tools, one or several in an envelope.
NextTools ==
    \/ Connect
    \/ ClientOpened
    \/ ClientOpenFailed
    \/ SetupComplete
    \/ RemoteClose
    \/ Disconnect
    \/ ToolBatchEvent
    \/ ToolResult

SpecTools == InitNoTranscriber /\ [][NextTools]_vars

\* A session with the output timeline of its sink: inbound chunks and
\* interruptions arrive while the device clock runs.
NextSink ==
    \/ ConnectOnce
    \/ ClientOpened
    \/ SetupComplete
    \/ Initialize
    \/ AudioChunkEvent
    \/ InterruptionEvent
    \/ ClockAdvance

SpecSink == InitNoTranscriber /\ [][NextSink]_vars

\* A running session with its transcription side channel: an agent built
\* with or without a Deepgram key, connected once, its microphone and the
\* inbound audio.
NextSide ==
    \/ ConnectOnce
    \/ ClientOpened
    \/ SetupComplete
    \/ Initialize
    \/ Transcribers
    \/ Microphone
    \/ AudioEvent

SpecSide == Init /\ [][NextSide]_vars

\* The page: it connects when it loads, and the user clicks its buttons.
NextPage ==
    \/ ConnectOnce
    \/ ClientOpened
    \/ ConnectClick
    \/ ConnectClickOpened
    \/ CameraClick
    \/ CameraClickAcquired
    \/ CameraClickFailed
    \/ CameraClickFailedResume
    \/ ScreenClick
    \/ ScreenClickAcquired
    \/ ScreenClickFailed
    \/ TrackEnded
    \/ DisconnectClick
    \/ DisconnectClickResume
    \/ DisconnectRaises

SpecPage == InitNoTranscriber /\ [][NextPage]_vars

\* ------------------------------------------------------------------ claims
CurrentClient == IF agent.client = NULL THEN NoClient ELSE clients[agent.client]

\* C1: a disconnect() that runs to its end without suspending (called twice in
\* a row, or with resources that were never acquired) raises no error and
\* leaves connected = false and initialized = false.
C1_DisconnectIdempotent ==
    (ret.op = "disconnect" /\ ret.step = "call" /\ ret.res # "pending")
        => (ret.res = "ok" /\ ~agent.connected /\ ~agent.initialized)

\* C2: after an 'interrupted' event was handled the sink is stopped, its queue
\* is empty and its isInitialized flag is false; the flag is set exactly when
\* the pipeline is primed, so the next audio event initializes the sink before
\* it streams, and no chunk is ever streamed onto a pipeline that a stop()
\* left unprimed.
C2_InterruptTakesEffectFirst ==
    agent.audioStreamer =>
        /\ streamer.isInitialized = streamer.primed
        /\ ~streamer.unprimed
        /\ streamer.queue > 0 => streamer.primed
        /\ ret.op = "interrupted" => (~streamer.isInitialized /\ streamer.queue = 0)

\* C2, its case: a chunk was streamed, after a re-initialization, on a sink
\* that an interruption had stopped.
C2_Witness ==
    /\ ret.op = "audio"
    /\ agent.audioStreamer
    /\ streamer.stopped /\ streamer.primed /\ streamer.queue > 0

C4_ConnectedMeansOpenAndRouted ==
    agent.connected => (ClientCanSend(CurrentClient) /\ CurrentClient.handlers > 0)

\* C5: initialized = true implies connected = true.
C5_InitializedImpliesConnected == agent.initialized => agent.connected

\* C6: a startCameraCapture() or startScreenShare() called while connected is
\* false is rejected and changes nothing: no timer, no capturer initialized,
\* no acquisition under way.
C6_StartRejectedWhenNotConnected ==
    [][(/\ ~agent.connected
        /\ ret'.step = "call"
        /\ ret'.op \in {"startCameraCapture", "startScreenShare"})
       => (/\ ret'.res = "error"
           /\ agent' = agent
           /\ timers' = timers
           /\ camera' = camera
           /\ screen' = screen
           /\ pend' = pend)]_vars

\* C6, its case: a start was called on an agent that is not connected.
C6_Witness ==
    /\ ~agent.connected
    /\ ret.step = "call"
    /\ ret.op \in {"startCameraCapture", "startScreenShare"}
    /\ ret.res = "error"
    /\ ~agent.cameraInterval /\ ~agent.screenInterval

\* C7: when the shared source ends from outside while the screen timer runs,
\* the timer is cancelled, screenInterval becomes null and
\* 'screenshare_stopped' is emitted, in that one step.
C7_TrackEndedStopsTimer ==
    [][(ret'.op = "trackEnded" /\ agent.screenInterval)
       => (/\ ~agent'.screenInterval
           /\ timers'.screen = timers.screen - 1
           /\ emitted' = <<"screenshare_stopped">>)]_vars

\* C7, its case: the source ended while the agent was connected and sharing;
\* the event is out and no screen timer is left.
C7_Witness ==
    /\ ret.op = "trackEnded"
    /\ agent.connected
    /\ emitted = <<"screenshare_stopped">>
    /\ ~agent.screenInterval /\ timers.screen = 0

\* C8: for a tool call with one function call, the tool handler is invoked
\* once and one toolResponse at most is sent for its identifier.
C8_OneInvocationOneResponse ==
    \A i \in ToolIds : tools[i].invoked <= 1 /\ tools[i].responded <= 1

\* C9: when a disconnect() was invoked while another one was suspended, no
\* disconnect() raises an error, and once none is suspended the agent is
\* disconnected and holds no client.
C9_ReentrantDisconnect ==
    [][(pend.overlap /\ ret'.op = "disconnect")
       => (/\ ret'.res # "error"
           /\ pend'.disconnect + pend'.cameraDisconnect = 0
                => (~agent'.connected /\ agent'.client = NULL))]_vars

\* C10: a disconnect() that ends without error on a connected agent leaves
\* every timer handle null, every audio resource and the client released, and
\* connected and initialized false.
C10_DisconnectReleasesAll ==
    [][(agent.connected /\ ret'.op = "disconnect" /\ ret'.res = "ok")
       => (/\ ~agent'.cameraInterval /\ ~agent'.screenInterval
           /\ ~agent'.modelsKeepAliveInterval /\ ~agent'.userKeepAliveInterval
           /\ agent'.audioRecorder = "null"
           /\ ~agent'.audioStreamer
           /\ ~agent'.visualizer
           /\ agent'.audioContext = "null"
           /\ agent'.client = NULL
           /\ ~agent'.connected /\ ~agent'.initialized)]_vars

\* C11: a disconnect() called on a connected agent while no other one is in
\* progress releases, whichever of them are set, the camera and screen timers,
\* the recorder, the visualizer, the streamer and both transcribers; with no
\* audio context it closes the client at once, with one it starts closing it
\* and suspends; and when it resumes, no disconnect() having been invoked
\* meanwhile, the context is null and the client is closed and released.
C11_EveryCleanupStepRuns ==
    [][/\ (/\ agent.connected
           /\ PendingDisconnects = 0
           /\ ret'.op = "disconnect" /\ ret'.step = "call")
          => (/\ ~agent'.cameraInterval /\ ~agent'.screenInterval
              /\ timers'.camera = timers.camera - (IF agent.cameraInterval THEN 1 ELSE 0)
              /\ timers'.screen = timers.screen - (IF agent.screenInterval THEN 1 ELSE 0)
              /\ ~camera'.stream /\ ~screen'.stream
              /\ agent'.audioRecorder = "null"
              /\ ~agent'.visualizer
              /\ ~agent'.audioStreamer
              /\ agent'.modelTranscriber = "null" /\ agent'.userTranscriber = "null"
              /\ IF agent.audioContext = "null"
                 THEN /\ ret'.res = "ok"
                      /\ agent'.client = NULL
                      /\ clients'[agent.client].st = "Disconnected"
                 ELSE /\ ret'.res = "pending"
                      /\ agent'.audioContext = "closing")
       /\ (/\ agent.connected
           /\ ~pend.overlap
           /\ ret'.op = "disconnect" /\ ret'.step = "resume")
          => (/\ ret'.res = "ok"
              /\ agent'.audioContext = "null"
              /\ agent'.client = NULL
              /\ clients'[agent.client].st = "Disconnected")]_vars

\* C11, its case: a disconnect() on a connected agent that held an audio
\* context is closing it, the only one in progress; no timer, capturer
\* stream or streamer is left.
C11_Witness ==
    /\ ret = Ret("disconnect", "call", "pending")
    /\ agent.connected
    /\ PendingDisconnects = 1
    /\ agent.audioContext = "closing"
    /\ emitted = <<>>
    /\ timers.camera = 0 /\ ~camera.isInitialized
    /\ timers.screen = 0 /\ screen.isInitialized = FALSE
    /\ ~agent.audioStreamer /\ streamer = NoStreamer

\* C12: when startCameraCapture() rejects after the camera capturer's
\* initialize() failed, cameraInterval is null, connected and initialized are
\* false and the client is released.
C12_CameraFailureTearsDown ==
    [][(ret'.op = "startCameraCapture" /\ ret'.step = "resume" /\ ret'.res = "error")
       => (/\ ~agent'.cameraInterval
           /\ ~agent'.connected /\ ~agent'.initialized
           /\ agent'.client = NULL)]_vars

\* C13: when startScreenShare() rejects after the screen capturer's
\* initialize() failed, screenInterval is null and the screen capturer is
\* disposed, and nothing else changed: connected, initialized, the client and
\* its connection, the camera capturer and its timer, the audio resources.
C13_ScreenFailureIsScoped ==
    [][(ret'.op = "startScreenShare" /\ ret'.step = "resume" /\ ret'.res = "error")
       => (/\ ~agent'.screenInterval
           /\ ~screen'.isInitialized /\ ~screen'.stream
           /\ agent' = [agent EXCEPT !.screenInterval = FALSE]
           /\ clients' = clients
           /\ camera' = camera
           /\ timers'.camera = timers.camera
           /\ streamer' = streamer)]_vars

\* C13, its case: a screen share failed to start on a connected, initialized
\* agent whose camera timer runs; all of that is still there.
C13_Witness ==
    /\ ret = Ret("startScreenShare", "resume", "error")
    /\ agent.connected /\ agent.initialized
    /\ agent.audioContext = "running"
    /\ agent.cameraInterval /\ timers.camera = 1 /\ camera.isInitialized
    /\ ~agent.screenInterval

\* C14: when a start rejects after its device could not be acquired, the
\* session is as connected as before, with the same client, and the other
\* capture path, its capturer and its timer are untouched.
C14_AcquisitionFailureIsScoped ==
    [][(/\ ret'.op \in {"startCameraCapture", "startScreenShare"}
        /\ ret'.step = "resume" /\ ret'.res = "error")
       => (/\ agent'.connected = agent.connected
           /\ agent'.client = agent.client
           /\ ret'.op = "startCameraCapture"
                => (/\ agent'.screenInterval = agent.screenInterval
                    /\ timers'.screen = timers.screen
                    /\ screen' = screen)
           /\ ret'.op = "startScreenShare"
                => (/\ agent'.cameraInterval = agent.cameraInterval
                    /\ timers'.camera = timers.camera
                    /\ camera' = camera))]_vars

\* C15: an initialize() that failed has released what it acquired (no open
\* audio context, no streamer, no keep-alive timer is left on the agent), and
\* in every state every open audio context is the one the agent references.
C15_NoDanglingAfterFailure ==
    /\ (ret.op = "initialize" /\ ret.res = "error")
          => (/\ agent.audioContext # "running"
              /\ ~agent.audioStreamer
              /\ ~agent.modelsKeepAliveInterval /\ ~agent.userKeepAliveInterval)
    /\ media.contexts = (IF agent.audioContext = "running" THEN 1 ELSE 0)

\* C16: in every state a running camera (screen) timer implies that the camera
\* (screen) capturer is initialized and holds its stream, and the running
\* timers of a kind are exactly the one cameraInterval (screenInterval)
\* references.
C16_TimerWithinCapturer ==
    /\ timers.camera > 0 => (camera.isInitialized /\ camera.stream)
    /\ timers.screen > 0 => (screen.isInitialized /\ screen.stream)
    /\ timers.camera = (IF agent.cameraInterval THEN 1 ELSE 0)
    /\ timers.screen = (IF agent.screenInterval THEN 1 ELSE 0)

\* C17: a start that was suspended on the acquisition of its device does
\* not, when it resumes, add a capture timer to one that is running: after
\* it at most one timer of its path exists.
C17_NoDoubleStart ==
    [][/\ (ret'.op = "startCameraCapture" /\ ret'.step = "resume" /\ ret'.res = "ok")
          => timers'.camera <= 1
       /\ (ret'.op = "startScreenShare" /\ ret'.step = "resume" /\ ret'.res = "ok")
          => timers'.screen <= 1]_vars

\* C18: every audio event handled while the agent is connected puts its chunk
\* on the sink, and the sink is initialized when streamAudio() is called: its
\* queue has grown, its pipeline was primed, its flag is set.
C18_AudioForwardedWhenConnected ==
    [][(agent.connected /\ ret'.op = "audio")
       => (/\ streamer'.queue > streamer.queue
           /\ streamer'.isInitialized
           /\ ~streamer'.unprimed)]_vars

\* C19: an audio event puts its chunk on the sink once, no listener being
\* installed twice on a client.
C19_ChunkEnqueuedOnce ==
    [][(ret'.op = "audio" /\ agent.audioStreamer)
       => streamer'.queue = streamer.queue + 1]_vars

\* C20: when the delivery of a captured chunk to the connection failed in the
\* capture callback, the recorder is stopped: it neither records nor holds
\* the microphone paused.
C20_FailedDeliveryStopsCapture ==
    [][(ret'.op = "audioData" /\ ret'.res = "error")
       => agent'.audioRecorder \notin {"recording", "paused"}]_vars

\* C21: the transcriber does not touch the audio path.  An initialize() that
\* ends on a connected agent whose client can send ends without error, with
\* initialized = true and the initial text turn accepted by the client,
\* whether a transcriber is configured and whether it connected; an inbound
\* chunk handled with a streamer is put on the sink; and a captured chunk
\* delivered while the client can send leaves the recorder as it was.
C21_TranscriberIsSideChannel ==
    [][/\ (/\ ret'.op = "initialize" /\ ret'.res # "pending"
           /\ agent.connected /\ ClientCanSend(CurrentClient))
          => (/\ ret'.res = "ok"
              /\ agent'.initialized
              /\ Len(clients'[agent.client].accepted)
                    = Len(clients[agent.client].accepted) + 1)
       /\ (ret'.op = "audio" /\ agent.audioStreamer)
          => streamer'.queue > streamer.queue
       /\ (ret'.op = "audioData" /\ ClientCanSend(CurrentClient))
          => agent'.audioRecorder = agent.audioRecorder]_vars

C23_RejectedBeforeConnect ==
    [][(/\ \A c \in ClientIds : clients[c].st = "None"
        /\ ret'.step = "call"
        /\ ret'.op \in {"sendText", "initialize", "toggleMic",
                        "startCameraCapture", "startScreenShare"})
       => (/\ ret'.res = "error"
           /\ agent' = agent
           /\ media' = media
           /\ streamer' = streamer
           /\ pend' = pend)]_vars

\* C24: a constructor called without url or without config ends with an
\* error before it made a capturer, and no client is ever constructed and no
\* connect() ever under way for the agent it did not construct.
C24_ConstructionFailsFirst ==
    (built.out # "none" /\ (~built.opts.url \/ ~built.opts.config))
        => (/\ built.out = "error"
            /\ ~built.cameraManager /\ ~built.screenManager
            /\ agent.client = NULL
            /\ pend.connect = {}
            /\ \A c \in ClientIds : clients[c].st = "None")

\* C24, its case: the constructor was called without a url, or with a url
\* and without a config, and threw.
C24_Witness ==
    /\ ret = Ret("constructor", "call", "error")
    /\ built.out = "error"
    /\ ~built.opts.url \/ ~built.opts.config

C26_StopStartsFreshTimeline ==
    [][/\ (ret'.op = "interrupted" /\ agent.audioStreamer)
          => (/\ sink'.entries = <<>>
              /\ sink'.count = 0
              /\ streamer'.queue = 0
              /\ ~streamer'.isInitialized)
       /\ agent'.audioStreamer => Len(sink'.entries) <= sink'.count
       /\ (ret'.op = "audio" /\ agent.audioStreamer /\ streamer.stopped
             /\ sink.count = 0)
          => (/\ sink'.lastStart = sink.now
              /\ sink'.first = sink.now
              /\ Len(sink'.entries) = 1
              /\ sink'.entries[1].start = sink.now)]_vars

\* C26, its case: a stop() discarded entries that were scheduled beyond the
\* device time, and the chunk streamed next starts at the device time.
C26_Witness ==
    /\ ret.op = "audio"
    /\ agent.audioStreamer /\ streamer.stopped
    /\ sink.discarded > 0
    /\ sink.count = 1
    /\ sink.now > 0
    /\ sink.lastStart = sink.now

\* C27: when the tool manager has returned every call it was handed and the
\* agent's client can send, every function call received has one
\* toolResponse of its identifier: for a batch of k calls, k responses.
C27_OneResponsePerCall ==
    [][(/\ ret'.op = "tool_result"
        /\ ClientCanSend(CurrentClient)
        /\ \A i \in CallIds : tools'[i].inflight = 0)
       => \A i \in CallIds : tools'[i].responded = tools'[i].received]_vars

\* C28: a toggleMic() on a recorder that holds the microphone alternates
\* between recording and paused and neither acquires nor releases; a
\* toggleMic() acquires the microphone only when no capture is running; and
\* a capture ends only where stop() is called on the recorder, in
\* disconnect() and in the capture callback.
C28_ToggleMicAcquiresOnce ==
    [][/\ (/\ ret'.op = "toggleMic" /\ ret'.step = "call"
           /\ agent.audioRecorder \in {"recording", "paused"})
          => (/\ ret'.res = "ok"
              /\ agent'.audioRecorder
                    = (IF agent.audioRecorder = "recording" THEN "paused" ELSE "recording")
              /\ media' = media
              /\ pend' = pend)
       /\ (ret'.op = "toggleMic" /\ media'.recordings > media.recordings)
          => media.recordings = 0
       /\ media'.recordings < media.recordings
          => ret'.op \in {"disconnect", "audioData"}]_vars

\* C29: when stopCameraCapture() (stopScreenShare()) has returned no camera
\* (screen) timer is live, and a camera (screen) tick fires only while the
\* timer of a start is referenced, that is between a successful start and
\* the next stop.
C29_NoTickAfterStop ==
    [][/\ ret'.op = "stopCameraCapture" => timers'.camera = 0
       /\ ret'.op = "stopScreenShare" => timers'.screen = 0
       /\ ret'.op = "cameraTick" => agent.cameraInterval
       /\ ret'.op = "screenTick" => agent.screenInterval]_vars

\* C30: a startCameraCapture() or stopCameraCapture() that succeeds changes
\* of the agent only cameraInterval: screenInterval, connected, initialized
\* and the client are as before, and so are the screen timer, the screen
\* capturer and the connections; and the same of startScreenShare() and
\* stopScreenShare() with camera and screen exchanged.
C30_CaptureIndependent ==
    [][/\ (ret'.op \in {"startCameraCapture", "stopCameraCapture"} /\ ret'.res = "ok")
          => (/\ agent' = [agent EXCEPT !.cameraInterval = agent'.cameraInterval]
              /\ timers'.screen = timers.screen
              /\ screen' = screen
              /\ clients' = clients)
       /\ (ret'.op \in {"startScreenShare", "stopScreenShare"} /\ ret'.res = "ok")
          => (/\ agent' = [agent EXCEPT !.screenInterval = agent'.screenInterval]
              /\ timers'.camera = timers.camera
              /\ camera' = camera
              /\ clients' = clients)]_vars

\* C30, its case: the camera was stopped on a connected, initialized agent
\* that shares its screen; the screen share goes on.
C30_Witness ==
    /\ ret = Ret("stopCameraCapture", "call", "ok")
    /\ agent.connected /\ agent.initialized
    /\ ~agent.cameraInterval /\ timers.camera = 0
    /\ agent.screenInterval /\ timers.screen = 1
    /\ screen.isInitialized /\ screen.stream

\* C31: what a disconnect() releases in one step it releases in this order:
\* the camera capturer, the screen capturer, the recorder, the visualizer,
\* the streamer, the model transcriber, the user transcriber, the audio
\* context, the client, the lifecycle flags.  When it starts closing the
\* audio context the agent holds no streamer any more, and it closes the
\* client and resets the flags in the step in which it ends, after
\* everything else.
C31_ReleaseOrder ==
    [][ret'.op = "disconnect"
       => LET Order == <<"camera", "screen", "recorder", "visualizer", "streamer",
                         "modelTranscriber", "userTranscriber", "context",
                         "client", "flags">>
              Rank(x) == CHOOSE n \in 1..Len(Order) : Order[n] = x
          IN /\ \A i, j \in 1..Len(released') :
                    i < j => Rank(released'[i]) < Rank(released'[j])
             /\ (\E i \in 1..Len(released') : released'[i] = "context")
                    => (~agent'.audioStreamer /\ streamer' = NoStreamer)
             /\ (ret'.step = "call" /\ ret'.res # "error")
                    => (released'[1] = "camera" /\ released'[2] = "screen")
             /\ ret'.res = "ok"
                    => (/\ Len(released') >= 2
                        /\ released'[Len(released') - 1] = "client"
                        /\ released'[Len(released')] = "flags")]_vars

\* C31, its case: a disconnect() on a connected, initialized agent stopped
\* both capturers, then the recorder, the visualizer and the streamer, then
\* the two transcribers, and is closing the audio context with the client
\* still held.
C31_Witness ==
    /\ ret = Ret("disconnect", "call", "pending")
    /\ agent.connected
    /\ agent.client # NULL
    /\ released = <<"camera", "screen", "recorder", "visualizer", "streamer",
                    "modelTranscriber", "userTranscriber", "context">>

\* C32: a sendText() that returns normally has handed its text to the client
\* (the client accepted one more text message) and emitted exactly one
\* 'text_sent' for it; a sendText() whose send failed emitted nothing and
\* sent nothing; and no other step emits 'text_sent'.
C32_TextSentAfterSend ==
    [][/\ (ret'.op = "sendText" /\ ret'.res = "ok")
           => /\ emitted' = <<"text_sent">>
              /\ agent.client # NULL
              /\ Len(clients'[agent.client].accepted)
                    = Len(clients[agent.client].accepted) + 1
              /\ clients'[agent.client].accepted[Len(clients'[agent.client].accepted)].t
                    = "text"
       /\ (ret'.op = "sendText" /\ ret'.res # "ok")
           => (emitted' = <<>> /\ clients' = clients)
       /\ (\E i \in 1..Len(emitted') : emitted'[i] = "text_sent")
           => (ret'.op = "sendText" /\ ret'.res = "ok")]_vars

\* C32, its case: a sendText() whose send failed, on an agent that holds a
\* client, emitted nothing.
C32_Witness ==
    /\ ret = Ret("sendText", "call", "error")
    /\ agent.client # NULL
    /\ emitted = <<>>

\* C33: connect() is called only on an agent that holds no client, and
\* initialize() only on an agent that is not initialized, has no audio
\* context and has no initialize() pending: neither is executed a second
\* time in a session.
C33_ConnectAndInitializeOnce ==
    [][/\ (ret'.op = "connect" /\ ret'.step = "call") => agent.client = NULL
       /\ (ret'.op = "initialize" /\ ret'.step = "call")
            => (~agent.initialized /\ agent.audioContext = "null"
                /\ pend.init = "none")]_vars

\* C34: every client whose transport is opening or open is the one the
\* agent holds, so at most one is.
C34_OneOpenClient ==
    \A c \in ClientIds :
        clients[c].st \in {"Connecting", "AwaitingSetupAck", "Active"}
            => agent.client = c

\* C35: an 'audio' or 'interrupted' event handled while a disconnect() is
\* suspended and the streamer is released raises nothing and leaves the
\* streamer released and untouched.
C35_InboundDuringDisconnect ==
    [][(ret'.op \in {"audio", "interrupted"} /\ PendingDisconnects > 0
        /\ ~agent.audioStreamer)
       => (ret'.res # "error" /\ ~agent'.audioStreamer /\ streamer' = streamer)]_vars

\* C36: a frame whose capture() was in flight, of a tick that fired while the
\* agent held a client, is never handed to a null client, and when it is sent
\* it is sent on the client the agent held when the tick fired.
C36_FrameOnItsOwnSession ==
    [][(ret'.op = "frame" /\ NULL \notin pend.frame \ pend'.frame)
       => /\ (agent.client = NULL => ret'.res = "none")
          /\ ret'.res = "ok" => agent.client \in pend.frame \ pend'.frame]_vars

\* C37: when no handler is suspended, isCameraActive is set only if the
\* camera timer of the agent is running and isScreenShareActive only if its
\* screen timer is.
C37_FlagsAgree ==
    (pend.camera = 0 /\ pend.screen = 0 /\ PendingDisconnects = 0
     /\ pend.connect = {} /\ pend.init = "none")
    => /\ page.isCameraActive => (agent.cameraInterval /\ timers.camera > 0)
       /\ page.isScreenShareActive => (agent.screenInterval /\ timers.screen > 0)

\* C38: a disconnect() that raised on an agent holding a client has closed
\* that client all the same, dropped it and reset the lifecycle flags.
C38_TransportClosedOnFailure ==
    [][(ret'.op = "disconnect" /\ ret'.res = "error" /\ agent.client # NULL)
       => /\ clients'[agent.client].st = "Disconnected"
          /\ agent'.client = NULL
          /\ ~agent'.connected /\ ~agent'.initialized]_vars

\* C39: a step emits 'screenshare_stopped' only when the shared track ended
\* or the page became hidden, with the stream held before the step and
\* released after it, and emits it once; stopScreenShare() and disconnect()
\* emit none.
C39_StoppedOncePerSession ==
    [][/\ (\E i \in 1..Len(emitted') : emitted'[i] = "screenshare_stopped")
           => /\ ret'.op \in {"trackEnded", "pageHidden"}
              /\ screen.stream /\ ~screen'.stream
              /\ emitted' = <<"screenshare_stopped">>
       /\ ret'.op \in {"stopScreenShare", "disconnect"} => emitted' = <<>>]_vars

\* C39, its case: the page became hidden while a stream was shared, and the
\* listeners emitted one 'screenshare_stopped' and stopped the timer.
C39_Witness ==
    /\ ret = Event("pageHidden")
    /\ emitted = <<"screenshare_stopped">>
    /\ ~screen.stream
    /\ ~agent.screenInterval

====
